---- MODULE Spec2Model ----
(***************************************************************************)
(* Model of the microbiome-demo scripts:                                   *)
(*   scripts/preprocess.py, scripts/diversity_analysis.py and              *)
(*   scripts/differential_abundance.py.                                    *)
(*                                                                         *)
(* Representation.                                                         *)
(*  - A Python dict that is used as a record (one analysis result, the     *)
(*    configuration) is a TLA+ function whose DOMAIN is the set of keys    *)
(*    that are present; d[k] on an absent key is Python's KeyError and     *)
(*    d.get(k, v) is Get(d, k, v).                                         *)
(*  - An ASV table (dict feature -> list of counts, insertion ordered) is  *)
(*    a sequence of records [id, counts].                                  *)
(*  - Real numbers are fixed-point thousandths: 0.001 is 1, 0.05 is 50,    *)
(*    2.1 is 2100.  Only comparisons are made on them, which the uniform   *)
(*    scaling preserves.  Read counts and depths are plain integers.       *)
(*  - A local variable that is not yet bound is << >>, a bound one is the  *)
(*    one-element sequence << value >>.                                    *)
(*  - stdout is the sequence of status lines printed so far, each line     *)
(*    named by its leading words.                                          *)
(***************************************************************************)
EXTENDS Integers, Sequences, FiniteSets, TLC

VARIABLES
    stage,        \* which script is executing
    config_file,  \* state of config/analysis_params.yaml on disk
    config,       \* the mapping load_config() returned
    pc,           \* position in the running function
    err,          \* the exception that ended the run, "none" if none
    stdout,       \* status lines printed so far
    asv_table,    \* local asv_table
    filtered,     \* local filtered
    counts,       \* the table argument the analysis routine received
    results,      \* local results
    sig_taxa,     \* local sig_taxa
    rarefied,     \* local rarefied
    alpha,        \* local alpha
    beta,         \* local beta
    permanova,    \* local permanova
    taxonomy,     \* local taxonomy
    returned      \* value returned by the entry point

vars == << stage, config_file, config, pc, err, stdout, asv_table, filtered,
           counts, results, sig_taxa, rarefied, alpha, beta, permanova,
           taxonomy, returned >>

Unbound == << >>
Bound(v) == << v >>
ValueOf(l) == l[1]

(***************************************************************************)
(* Bounds of the model.                                                    *)
(***************************************************************************)
MaxMissing == 1      \* at most this many keys are absent from the config
MaxResults == 2      \* longest result list handed to the significance filter
MaxFeatures == 2     \* most features in a table handed to a library function
MaxSamples == 3      \* most samples in a table handed to a library function

(***************************************************************************)
(* Python dict access.                                                     *)
(***************************************************************************)
\* d.get(k, default)
Get(d, k, default) == IF k \in DOMAIN d THEN d[k] ELSE default

\* d[k] raises KeyError for some k of keys
KeyError(d, keys) == \E k \in keys : k \notin DOMAIN d

(***************************************************************************)
(* config/analysis_params.yaml: the keys the three scripts subscript, and  *)
(* the values the model lets the file hold.                                *)
(***************************************************************************)
Keys ==
    { "quality_threshold", "min_read_length", "max_read_length", "trim_left",
      "trim_right", "rarefaction_depth", "alpha_metrics", "beta_metric",
      "permanova_permutations", "differential_method",
      "significance_threshold", "min_prevalence", "min_abundance" }

SupportedMethods == { "deseq2", "ancom", "aldex2" }
MethodNames == SupportedMethods \cup { "wilcoxon", "DESeq2" }
Thresholds == { 0, 10, 50 }            \* 0, 0.01, 0.05
Prevalences == { 100, 1500 }           \* 0.1, 1.5
Abundances == { 1, 500 }               \* 0.001, 0.5
Depths == { 100, 10000 }
BetaMetrics == { "bray_curtis", "jaccard" }

FullConfigs ==
    { [ quality_threshold |-> 30, min_read_length |-> 250,
        max_read_length |-> 500, trim_left |-> 0, trim_right |-> 0,
        rarefaction_depth |-> d,
        alpha_metrics |-> << "shannon", "chao1", "observed_otus" >>,
        beta_metric |-> b, permanova_permutations |-> 999,
        differential_method |-> m, significance_threshold |-> t,
        min_prevalence |-> p, min_abundance |-> a ] :
      d \in Depths, b \in BetaMetrics, m \in MethodNames, t \in Thresholds,
      p \in Prevalences, a \in Abundances }

Restrict(f, S) == [ k \in S |-> f[k] ]

Configs ==
    { Restrict(f, Keys \ miss) :
        f \in FullConfigs,
        miss \in { m \in SUBSET Keys : Cardinality(m) <= MaxMissing } }

(***************************************************************************)
(* Status lines.  A block of print statements is a sequence of             *)
(* [tag, keys]: the line and the config keys its f-string subscripts.      *)
(* The block prints up to the first line that raises KeyError.             *)
(***************************************************************************)
FirstRaising(lines, cfg) ==
    LET bad == { i \in 1..Len(lines) : KeyError(cfg, lines[i].keys) }
    IN  IF bad = {} THEN Len(lines) + 1
        ELSE CHOOSE i \in bad : \A j \in bad : i <= j

Printed(lines, cfg) ==
    [ i \in 1..(FirstRaising(lines, cfg) - 1) |-> lines[i].tag ]

BlockRaises(lines, cfg) == FirstRaising(lines, cfg) <= Len(lines)

(***************************************************************************)
(* scripts/differential_abundance.py                                       *)
(***************************************************************************)
SimulatedTable ==
    << [ id |-> "ASV1", counts |-> << 100, 50, 75 >> ],
       [ id |-> "ASV2", counts |-> << 200, 150, 180 >> ] >>

Groups == << "treatment", "control", "treatment" >>

filter_low_abundance(table, min_prevalence, min_abundance) == table

run_deseq2(cnts, groups, alpha_) ==
    << [ taxon |-> "Bacteroides", log2fc |-> 2100, padj |-> 1 ],
       [ taxon |-> "Prevotella", log2fc |-> -1500, padj |-> 20 ],
       [ taxon |-> "Akkermansia", log2fc |-> 1800, padj |-> 3 ] >>

run_ancom(cnts, groups) ==
    << [ taxon |-> "Bacteroides", W |-> 45, detected |-> TRUE ],
       [ taxon |-> "Faecalibacterium", W |-> 38, detected |-> TRUE ] >>

run_aldex2(cnts, groups) == << >>

\* the list comprehension that builds sig_taxa
IsSelected(r, threshold) ==
    Get(r, "padj", 0) < threshold \/ Get(r, "detected", FALSE)

SigTaxa(res, threshold) == SelectSeq(res, LAMBDA r : IsSelected(r, threshold))

(***************************************************************************)
(* scripts/diversity_analysis.py                                           *)
(***************************************************************************)
rarefy_samples(table, rarefaction_depth) == table

calculate_alpha_diversity(rarefied_table, metrics) ==
    [ sample1 |-> [ shannon |-> 3200, chao1 |-> 150000,
                    observed_otus |-> 120000 ],
      sample2 |-> [ shannon |-> 2800, chao1 |-> 130000,
                    observed_otus |-> 100000 ] ]

calculate_beta_diversity(rarefied_table, metric) ==
    << << 0, 300, 500 >>, << 300, 0, 400 >>, << 500, 400, 0 >> >>

run_permanova(distance_matrix, groups, permutations) ==
    [ F_statistic |-> 4200, p_value |-> 12, R2 |-> 150 ]

(***************************************************************************)
(* scripts/preprocess.py                                                   *)
(***************************************************************************)
quality_filter(reads, quality_threshold, min_length, max_length) == reads

denoise_with_dada2(filtered_reads) == SimulatedTable

assign_taxonomy(asv_sequences) ==
    [ ASV1 |-> "Bacteroides", ASV2 |-> "Prevotella" ]

(***************************************************************************)
(* Running a script: python scripts/<stage>.py calls the run_<stage>()     *)
(* entry point, which first loads the configuration.                       *)
(***************************************************************************)
Stages == { "preprocess", "diversity", "differential" }

Init ==
    /\ stage \in Stages
    /\ config_file \in
         { [ status |-> "absent", data |-> << >> ],
           [ status |-> "malformed", data |-> << >> ] }
         \cup { [ status |-> "ok", data |-> c ] : c \in Configs }
    /\ config = Unbound
    /\ pc = "load"
    /\ err = "none"
    /\ stdout = << >>
    /\ asv_table = Unbound
    /\ filtered = Unbound
    /\ counts = Unbound
    /\ results = Unbound
    /\ sig_taxa = Unbound
    /\ rarefied = Unbound
    /\ alpha = Unbound
    /\ beta = Unbound
    /\ permanova = Unbound
    /\ taxonomy = Unbound
    /\ returned = Unbound

\* an uncaught exception ends the run
Raise(e) ==
    /\ pc' = "error"
    /\ err' = e

\* load_config(): open() fails on a missing file, yaml.safe_load on a
\* malformed one
load_config ==
    /\ stage \in Stages
    /\ pc = "load"
    /\ IF config_file.status = "absent"
         THEN Raise("FileNotFoundError") /\ UNCHANGED config
         ELSE IF config_file.status = "malformed"
                THEN Raise("YAMLError") /\ UNCHANGED config
                ELSE /\ config' = Bound(config_file.data)
                     /\ pc' = "header"
                     /\ UNCHANGED err
    /\ UNCHANGED << stage, config_file, stdout, asv_table, filtered, counts,
                    results, sig_taxa, rarefied, alpha, beta, permanova,
                    taxonomy, returned >>

Cfg == ValueOf(config)

\* the banner and the parameter lines an entry point prints
Header(lines, next) ==
    /\ pc = "header"
    /\ stdout' = stdout \o Printed(lines, Cfg)
    /\ IF BlockRaises(lines, Cfg)
         THEN Raise("KeyError")
         ELSE pc' = next /\ UNCHANGED err
    /\ UNCHANGED << stage, config_file, config, asv_table, filtered, counts,
                    results, sig_taxa, rarefied, alpha, beta, permanova,
                    taxonomy, returned >>

(***************************************************************************)
(* run_differential_analysis()                                             *)
(***************************************************************************)
DA_HeaderLines ==
    << [ tag |-> "banner", keys |-> {} ],
       [ tag |-> "Method", keys |-> { "differential_method" } ],
       [ tag |-> "Significance threshold",
         keys |-> { "significance_threshold" } ],
       [ tag |-> "Min prevalence", keys |-> { "min_prevalence" } ] >>

\* DA_Header continuing at the dispatch, the prefilter call left out
DA_Header_NoPrefilter ==
    /\ stage = "differential"
    /\ Header(DA_HeaderLines, "dispatch")

DA_Header ==
    /\ stage = "differential"
    /\ Header(DA_HeaderLines, "prefilter")

DA_Prefilter ==
    /\ stage = "differential"
    /\ pc = "prefilter"
    /\ asv_table' = Bound(SimulatedTable)
    /\ IF KeyError(Cfg, { "min_prevalence", "min_abundance" })
         THEN Raise("KeyError") /\ UNCHANGED << filtered, stdout >>
         ELSE /\ filtered' = Bound(filter_low_abundance(SimulatedTable,
                                       Cfg["min_prevalence"],
                                       Cfg["min_abundance"]))
              /\ stdout' = Append(stdout, "Filtering")
              /\ pc' = "dispatch"
              /\ UNCHANGED err
    /\ UNCHANGED << stage, config_file, config, counts, results, sig_taxa,
                    rarefied, alpha, beta, permanova, taxonomy, returned >>

\* the call of one analysis routine: its argument, its status line, its result
Invoke(tag, res) ==
    /\ counts' = filtered
    /\ stdout' = Append(stdout, tag)
    /\ results' = Bound(res)
    /\ pc' = "sigfilter"
    /\ UNCHANGED err

\* Resolve with the chain ending in a plain else: an unrecognised name runs
\* the last routine
Resolve_Fallthrough(method) ==
    IF method = "deseq2" THEN "run_deseq2"
    ELSE IF method = "ancom" THEN "run_ancom"
    ELSE "run_aldex2"

\* Resolve comparing the name without regard to case
Resolve_AnyCase(method) ==
    IF method \in { "deseq2", "DESeq2" } THEN "run_deseq2"
    ELSE IF method = "ancom" THEN "run_ancom"
    ELSE IF method = "aldex2" THEN "run_aldex2"
    ELSE "ValueError"

\* the if / elif / else chain on the configured method: the routine it
\* selects, or the ValueError of the else branch
Resolve(method) ==
    IF method = "deseq2" THEN "run_deseq2"
    ELSE IF method = "ancom" THEN "run_ancom"
    ELSE IF method = "aldex2" THEN "run_aldex2"
    ELSE "ValueError"

DA_Dispatch ==
    /\ stage = "differential"
    /\ pc = "dispatch"
    /\ IF KeyError(Cfg, { "differential_method" })
         THEN Raise("KeyError") /\ UNCHANGED << counts, stdout, results >>
         ELSE LET branch == Resolve(Cfg["differential_method"])
                  table == ValueOf(filtered)
              IN  IF branch = "run_deseq2"
                    THEN IF KeyError(Cfg, { "significance_threshold" })
                           THEN /\ Raise("KeyError")
                                /\ UNCHANGED << counts, stdout, results >>
                           ELSE Invoke("Running DESeq2",
                                       run_deseq2(table, Groups,
                                           Cfg["significance_threshold"]))
                    ELSE IF branch = "run_ancom"
                           THEN Invoke("Running ANCOM",
                                       run_ancom(table, Groups))
                           ELSE IF branch = "run_aldex2"
                                  THEN Invoke("Running ALDEx2",
                                              run_aldex2(table, Groups))
                                  ELSE /\ Raise("ValueError")
                                       /\ UNCHANGED << counts, stdout,
                                                       results >>
    /\ UNCHANGED << stage, config_file, config, asv_table, filtered, sig_taxa,
                    rarefied, alpha, beta, permanova, taxonomy, returned >>

DA_SigFilter ==
    /\ stage = "differential"
    /\ pc = "sigfilter"
    /\ IF KeyError(Cfg, { "significance_threshold" })
         THEN Raise("KeyError") /\ UNCHANGED << sig_taxa, stdout >>
         ELSE /\ sig_taxa' = Bound(SigTaxa(ValueOf(results),
                                           Cfg["significance_threshold"]))
              /\ stdout' = Append(stdout, "Found")
              /\ pc' = "return"
              /\ UNCHANGED err
    /\ UNCHANGED << stage, config_file, config, asv_table, filtered, counts,
                    results, rarefied, alpha, beta, permanova, taxonomy,
                    returned >>

DA_Return ==
    /\ stage = "differential"
    /\ pc = "return"
    /\ returned' = Bound(ValueOf(results))
    /\ pc' = "done"
    /\ UNCHANGED << stage, config_file, config, err, stdout, asv_table,
                    filtered, counts, results, sig_taxa, rarefied, alpha, beta,
                    permanova, taxonomy >>

(***************************************************************************)
(* run_diversity_analysis()                                                *)
(***************************************************************************)
DV_HeaderLines ==
    << [ tag |-> "banner", keys |-> {} ],
       [ tag |-> "Rarefaction depth", keys |-> { "rarefaction_depth" } ],
       [ tag |-> "Beta metric", keys |-> { "beta_metric" } ],
       [ tag |-> "PERMANOVA permutations",
         keys |-> { "permanova_permutations" } ] >>

DV_Header ==
    /\ stage = "diversity"
    /\ Header(DV_HeaderLines, "rarefy")

DV_Rarefy ==
    /\ stage = "diversity"
    /\ pc = "rarefy"
    /\ asv_table' = Bound(SimulatedTable)
    /\ IF KeyError(Cfg, { "rarefaction_depth" })
         THEN Raise("KeyError") /\ UNCHANGED << rarefied, stdout >>
         ELSE /\ rarefied' = Bound(rarefy_samples(SimulatedTable,
                                       Cfg["rarefaction_depth"]))
              /\ stdout' = Append(stdout, "Rarefying")
              /\ pc' = "alpha"
              /\ UNCHANGED err
    /\ UNCHANGED << stage, config_file, config, filtered, counts, results,
                    sig_taxa, alpha, beta, permanova, taxonomy, returned >>

\* DV_Alpha reading the key with config.get(): an absent key becomes None,
\* which calculate_alpha_diversity replaces by its default metric list
DV_Alpha_get ==
    /\ stage = "diversity"
    /\ pc = "alpha"
    /\ alpha' = Bound(calculate_alpha_diversity(ValueOf(rarefied),
                          Get(Cfg, "alpha_metrics",
                              << "shannon", "chao1", "observed_otus" >>)))
    /\ stdout' = Append(stdout, "Calculating alpha diversity")
    /\ pc' = "beta"
    /\ UNCHANGED << stage, config_file, config, err, asv_table, filtered,
                    counts, results, sig_taxa, rarefied, beta, permanova,
                    taxonomy, returned >>

DV_Alpha ==
    /\ stage = "diversity"
    /\ pc = "alpha"
    /\ IF KeyError(Cfg, { "alpha_metrics" })
         THEN Raise("KeyError") /\ UNCHANGED << alpha, stdout >>
         ELSE /\ alpha' = Bound(calculate_alpha_diversity(ValueOf(rarefied),
                                    Cfg["alpha_metrics"]))
              /\ stdout' = Append(stdout, "Calculating alpha diversity")
              /\ pc' = "beta"
              /\ UNCHANGED err
    /\ UNCHANGED << stage, config_file, config, asv_table, filtered, counts,
                    results, sig_taxa, rarefied, beta, permanova, taxonomy,
                    returned >>

DV_Beta ==
    /\ stage = "diversity"
    /\ pc = "beta"
    /\ IF KeyError(Cfg, { "beta_metric" })
         THEN Raise("KeyError") /\ UNCHANGED << beta, stdout >>
         ELSE /\ beta' = Bound(calculate_beta_diversity(ValueOf(rarefied),
                                   Cfg["beta_metric"]))
              /\ stdout' = Append(stdout, "Calculating beta diversity")
              /\ pc' = "permanova"
              /\ UNCHANGED err
    /\ UNCHANGED << stage, config_file, config, asv_table, filtered, counts,
                    results, sig_taxa, rarefied, alpha, permanova, taxonomy,
                    returned >>

DV_Permanova ==
    /\ stage = "diversity"
    /\ pc = "permanova"
    /\ IF KeyError(Cfg, { "permanova_permutations" })
         THEN Raise("KeyError") /\ UNCHANGED << permanova, stdout >>
         ELSE /\ permanova' = Bound(run_permanova(ValueOf(beta), Groups,
                                        Cfg["permanova_permutations"]))
              /\ stdout' = Append(stdout, "Running PERMANOVA")
              /\ pc' = "return"
              /\ UNCHANGED err
    /\ UNCHANGED << stage, config_file, config, asv_table, filtered, counts,
                    results, sig_taxa, rarefied, alpha, beta, taxonomy,
                    returned >>

DV_Return ==
    /\ stage = "diversity"
    /\ pc = "return"
    /\ stdout' = Append(stdout, "PERMANOVA results")
    /\ returned' = Bound(<< ValueOf(alpha), ValueOf(beta),
                            ValueOf(permanova) >>)
    /\ pc' = "done"
    /\ UNCHANGED << stage, config_file, config, err, asv_table, filtered,
                    counts, results, sig_taxa, rarefied, alpha, beta,
                    permanova, taxonomy >>

(***************************************************************************)
(* run_preprocessing()                                                     *)
(***************************************************************************)
PP_HeaderLines ==
    << [ tag |-> "banner", keys |-> {} ],
       [ tag |-> "Quality threshold", keys |-> { "quality_threshold" } ],
       [ tag |-> "Read length",
         keys |-> { "min_read_length", "max_read_length" } ],
       [ tag |-> "Trim", keys |-> { "trim_left", "trim_right" } ] >>

PP_Header ==
    /\ stage = "preprocess"
    /\ Header(PP_HeaderLines, "quality_filter")

PP_QualityFilter ==
    /\ stage = "preprocess"
    /\ pc = "quality_filter"
    /\ IF KeyError(Cfg, { "quality_threshold", "min_read_length",
                          "max_read_length" })
         THEN Raise("KeyError") /\ UNCHANGED << filtered, stdout >>
         ELSE /\ filtered' = Bound(quality_filter("simulated_reads",
                                       Cfg["quality_threshold"],
                                       Cfg["min_read_length"],
                                       Cfg["max_read_length"]))
              /\ stdout' = Append(stdout, "Filtering reads")
              /\ pc' = "denoise"
              /\ UNCHANGED err
    /\ UNCHANGED << stage, config_file, config, asv_table, counts, results,
                    sig_taxa, rarefied, alpha, beta, permanova, taxonomy,
                    returned >>

PP_Denoise ==
    /\ stage = "preprocess"
    /\ pc = "denoise"
    /\ asv_table' = Bound(denoise_with_dada2(ValueOf(filtered)))
    /\ stdout' = Append(stdout, "Running DADA2")
    /\ pc' = "taxonomy"
    /\ UNCHANGED << stage, config_file, config, err, filtered, counts,
                    results, sig_taxa, rarefied, alpha, beta, permanova,
                    taxonomy, returned >>

PP_AssignTaxonomy ==
    /\ stage = "preprocess"
    /\ pc = "taxonomy"
    /\ taxonomy' = Bound(assign_taxonomy(ValueOf(asv_table)))
    /\ stdout' = Append(stdout, "Assigning taxonomy")
    /\ pc' = "return"
    /\ UNCHANGED << stage, config_file, config, err, asv_table, filtered,
                    counts, results, sig_taxa, rarefied, alpha, beta,
                    permanova, returned >>

PP_Return ==
    /\ stage = "preprocess"
    /\ pc = "return"
    /\ stdout' = Append(stdout, "Generated")
    /\ returned' = Bound(<< ValueOf(asv_table), ValueOf(taxonomy) >>)
    /\ pc' = "done"
    /\ UNCHANGED << stage, config_file, config, err, asv_table, filtered,
                    counts, results, sig_taxa, rarefied, alpha, beta,
                    permanova, taxonomy >>

Next ==
    \/ load_config
    \/ PP_Header \/ PP_QualityFilter \/ PP_Denoise \/ PP_AssignTaxonomy
    \/ PP_Return
    \/ DV_Header \/ DV_Rarefy \/ DV_Alpha \/ DV_Beta \/ DV_Permanova
    \/ DV_Return
    \/ DA_Header \/ DA_Prefilter \/ DA_Dispatch \/ DA_SigFilter \/ DA_Return

Spec == Init /\ [][Next]_vars

(***************************************************************************)
(* The functions called directly, as a client that imports the modules     *)
(* calls them: the table and the result list are the caller's, the other   *)
(* arguments are taken from a configuration as the entry points take them. *)
(***************************************************************************)
FeatureIds == << "ASV1", "ASV2", "ASV3", "ASV4" >>
CountValues == { 0, 100 }

TablesOf(f, n) ==
    { [ i \in 1..f |-> [ id |-> FeatureIds[i], counts |-> rows[i] ] ] :
        rows \in [ 1..f -> [ 1..n -> CountValues ] ] }

Tables ==
    { SimulatedTable }
    \cup UNION { TablesOf(f, n) : f \in 0..MaxFeatures, n \in 2..MaxSamples }

ResultRecords ==
    { [ taxon |-> "Bacteroides", log2fc |-> 2100, padj |-> 1 ],
      [ taxon |-> "Roseburia", log2fc |-> 300, padj |-> 200 ],
      [ taxon |-> "Faecalibacterium", W |-> 38, detected |-> TRUE ],
      [ taxon |-> "Blautia", W |-> 2, detected |-> FALSE ],
      [ taxon |-> "Dorea", W |-> 5 ] }

ResultSeqs == UNION { [ 1..n -> ResultRecords ] : n \in 0..MaxResults }

CallConfigs ==
    { c \in FullConfigs :
        /\ c.differential_method = "deseq2"
        /\ c.beta_metric = "bray_curtis"
        /\ c.min_prevalence = 100
        /\ c.min_abundance = 1 }

NumSamples(table) == IF Len(table) = 0 THEN 0 ELSE Len(table[1].counts)

GroupsOf(n) ==
    [ j \in 1..n |-> IF j % 2 = 1 THEN "treatment" ELSE "control" ]

FnInit ==
    /\ stage = "library"
    /\ \E c \in CallConfigs :
         /\ config_file = [ status |-> "ok", data |-> c ]
         /\ config = Bound(c)
    /\ pc = "call"
    /\ err = "none"
    /\ stdout = << >>
    /\ asv_table \in { Bound(t) : t \in Tables }
    /\ results \in { Bound(r) : r \in ResultSeqs }
    /\ filtered = Unbound
    /\ counts = Unbound
    /\ sig_taxa = Unbound
    /\ rarefied = Unbound
    /\ alpha = Unbound
    /\ beta = Unbound
    /\ permanova = Unbound
    /\ taxonomy = Unbound
    /\ returned = Unbound

Fn_filter_low_abundance ==
    /\ stage = "library"
    /\ filtered = Unbound
    /\ filtered' = Bound(filter_low_abundance(ValueOf(asv_table),
                             Cfg["min_prevalence"], Cfg["min_abundance"]))
    /\ stdout' = Append(stdout, "Filtering")
    /\ UNCHANGED << stage, config_file, config, pc, err, asv_table, counts,
                    results, sig_taxa, rarefied, alpha, beta, permanova,
                    taxonomy, returned >>

\* an analysis routine called on the prefiltered table
FnInvoke(tag, res) ==
    /\ filtered # Unbound
    /\ counts = Unbound
    /\ sig_taxa = Unbound
    /\ counts' = filtered
    /\ stdout' = Append(stdout, tag)
    /\ results' = Bound(res)
    /\ UNCHANGED << stage, config_file, config, pc, err, asv_table, filtered,
                    sig_taxa, rarefied, alpha, beta, permanova, taxonomy,
                    returned >>

Fn_run_deseq2 ==
    /\ stage = "library"
    /\ FnInvoke("Running DESeq2",
                    run_deseq2(ValueOf(filtered),
                               GroupsOf(NumSamples(ValueOf(filtered))),
                               Cfg["significance_threshold"]))

Fn_run_ancom ==
    /\ stage = "library"
    /\ FnInvoke("Running ANCOM",
                    run_ancom(ValueOf(filtered),
                              GroupsOf(NumSamples(ValueOf(filtered)))))

Fn_run_aldex2 ==
    /\ stage = "library"
    /\ FnInvoke("Running ALDEx2",
                    run_aldex2(ValueOf(filtered),
                               GroupsOf(NumSamples(ValueOf(filtered)))))

\* the significance filter applied to the caller's result list
Fn_SigTaxa ==
    /\ stage = "library"
    /\ sig_taxa = Unbound
    /\ sig_taxa' = Bound(SigTaxa(ValueOf(results),
                                 Cfg["significance_threshold"]))
    /\ stdout' = Append(stdout, "Found")
    /\ UNCHANGED << stage, config_file, config, pc, err, asv_table, filtered,
                    counts, results, rarefied, alpha, beta, permanova,
                    taxonomy, returned >>

Fn_rarefy_samples ==
    /\ stage = "library"
    /\ rarefied = Unbound
    /\ rarefied' = Bound(rarefy_samples(ValueOf(asv_table),
                                        Cfg["rarefaction_depth"]))
    /\ stdout' = Append(stdout, "Rarefying")
    /\ UNCHANGED << stage, config_file, config, pc, err, asv_table, filtered,
                    counts, results, sig_taxa, alpha, beta, permanova,
                    taxonomy, returned >>

Fn_calculate_beta_diversity ==
    /\ stage = "library"
    /\ rarefied # Unbound
    /\ beta = Unbound
    /\ beta' = Bound(calculate_beta_diversity(ValueOf(rarefied),
                                              Cfg["beta_metric"]))
    /\ stdout' = Append(stdout, "Calculating beta diversity")
    /\ UNCHANGED << stage, config_file, config, pc, err, asv_table, filtered,
                    counts, results, sig_taxa, rarefied, alpha, permanova,
                    taxonomy, returned >>

FnNext ==
    \/ Fn_filter_low_abundance
    \/ Fn_run_deseq2 \/ Fn_run_ancom \/ Fn_run_aldex2
    \/ Fn_SigTaxa
    \/ Fn_rarefy_samples \/ Fn_calculate_beta_diversity

FnSpec == FnInit /\ [][FnNext]_vars

(***************************************************************************)
(* Properties.                                                             *)
(***************************************************************************)
Loaded == config # Unbound
Threshold == Cfg["significance_threshold"]
LinesOf(tags) == { i \in DOMAIN stdout : stdout[i] \in tags }
RoutineTags == { "Running DESeq2", "Running ANCOM", "Running ALDEx2" }
InvokedTags == { stdout[i] : i \in LinesOf(RoutineTags) }

\* the documented significance rule: an adjusted p-value strictly below the
\* threshold, or a detection flag that is true
Significant(r, threshold) ==
    \/ "padj" \in DOMAIN r /\ r["padj"] < threshold
    \/ "detected" \in DOMAIN r /\ r["detected"] = TRUE

RECURSIVE SumSeq(_)
SumSeq(q) == IF q = << >> THEN 0 ELSE Head(q) + SumSeq(Tail(q))

\* total count of one feature, of one sample, of the whole table
FeatureTotal(f) == SumSeq(f.counts)
SampleTotal(table, j) == SumSeq([ i \in 1..Len(table) |-> table[i].counts[j] ])
TableTotal(table) == SumSeq([ i \in 1..Len(table) |-> FeatureTotal(table[i]) ])

\* fraction of samples with a non-zero count below min_prevalence
PrevalenceBelow(f, min_prevalence) ==
    Cardinality({ j \in DOMAIN f.counts : f.counts[j] # 0 }) * 1000
        < min_prevalence * Len(f.counts)

\* share of the table's reads below min_abundance
AbundanceBelow(table, f, min_abundance) ==
    FeatureTotal(f) * 1000 < min_abundance * TableTotal(table)

TagOf(m) ==
    CASE m = "deseq2" -> "Running DESeq2"
      [] m = "ancom" -> "Running ANCOM"
      [] m = "aldex2" -> "Running ALDEx2"

OutputOf(m) ==
    CASE m = "deseq2" -> run_deseq2(ValueOf(filtered), Groups, Threshold)
      [] m = "ancom" -> run_ancom(ValueOf(filtered), Groups)
      [] m = "aldex2" -> run_aldex2(ValueOf(filtered), Groups)

MethodConfigured ==
    /\ stage = "differential"
    /\ Loaded
    /\ "differential_method" \in DOMAIN Cfg

\* the if / elif / else chain has been executed
Dispatched == filtered # Unbound /\ pc # "dispatch"

\* C2: method resolution selects exactly the matching routine for deseq2,
\* ancom and aldex2, and fails with the unknown-method error for every other
\* configured name, for which no routine is ever invoked.
C2_MethodResolution ==
    MethodConfigured =>
        LET m == Cfg["differential_method"]
        IN  IF m \in SupportedMethods
              THEN /\ err # "ValueError"
                   /\ InvokedTags \subseteq { TagOf(m) }
                   /\ Dispatched =>
                        /\ err = "none"
                        /\ InvokedTags = { TagOf(m) }
                        /\ results = Bound(OutputOf(m))
              ELSE /\ InvokedTags = {}
                   /\ counts = Unbound
                   /\ results = Unbound
                   /\ Dispatched => pc = "error" /\ err = "ValueError"

C2_Witness ==
    /\ MethodConfigured
    /\ Cfg["differential_method"] = "ancom"
    /\ pc = "done"
    /\ InvokedTags = { "Running ANCOM" }

\* C3: the value run_differential_analysis returns is exactly the subset of
\* the routine's output that the significance filter selects, not the
\* unfiltered output.
C3_ReturnsSignificantSubset ==
    (stage = "differential" /\ pc = "done") => returned = sig_taxa

\* C4: the table filter_low_abundance returns holds no feature that fails
\* both the prevalence and the abundance threshold, and holds every input
\* feature that passes at least one of them.
C4_PrefilterDropsFailingFeatures ==
    (stage = "library" /\ filtered # Unbound) =>
        LET inp == ValueOf(asv_table)
            out == ValueOf(filtered)
            fails(f) ==
                /\ PrevalenceBelow(f, Cfg["min_prevalence"])
                /\ AbundanceBelow(inp, f, Cfg["min_abundance"])
        IN  /\ \A i \in DOMAIN out : ~fails(out[i])
            /\ \A i \in DOMAIN inp :
                 ~fails(inp[i]) => \E j \in DOMAIN out : out[j] = inp[i]

\* C5: with an unsupported differential_method the run ends in a fatal
\* error: nothing is returned, no routine is invoked, and the significance
\* filter is never reached.
C5_UnknownMethodFatal ==
    (MethodConfigured /\ Cfg["differential_method"] \notin SupportedMethods) =>
        /\ returned = Unbound
        /\ results = Unbound
        /\ sig_taxa = Unbound
        /\ InvokedTags = {}
        /\ LinesOf({ "Found" }) = {}
        /\ pc \notin { "sigfilter", "return", "done" }
        /\ pc = "error" \/ ENABLED Next

C5_Witness ==
    /\ MethodConfigured
    /\ Cfg["differential_method"] = "wilcoxon"
    /\ pc = "error"
    /\ err = "ValueError"
    /\ LinesOf({ "Filtering" }) # {}

\* C6: for every supported method, the differential-abundance steps run on
\* an empty table produce zero analysis results and zero significant taxa.
C6_EmptyTableNoResults ==
    (stage = "library" /\ counts # Unbound /\ Len(ValueOf(asv_table)) = 0) =>
        /\ err = "none"
        /\ Len(ValueOf(results)) = 0
        /\ sig_taxa # Unbound => Len(ValueOf(sig_taxa)) = 0

\* the configuration keys each entry point subscripts
ConsumedKeys(s) ==
    CASE s = "preprocess" ->
           { "quality_threshold", "min_read_length", "max_read_length",
             "trim_left", "trim_right" }
      [] s = "diversity" ->
           { "rarefaction_depth", "alpha_metrics", "beta_metric",
             "permanova_permutations" }
      [] s = "differential" ->
           { "differential_method", "significance_threshold",
             "min_prevalence", "min_abundance" }

\* the local that the call reading key k binds, << >> while it is unbound;
\* trim_left and trim_right are read by the header print alone, and the
\* entry point's return value stands for them
BoundFrom(k) ==
    CASE k \in { "quality_threshold", "min_read_length", "max_read_length",
                 "min_prevalence", "min_abundance" } -> filtered
      [] k \in { "trim_left", "trim_right" } -> returned
      [] k = "rarefaction_depth" -> rarefied
      [] k = "alpha_metrics" -> alpha
      [] k = "beta_metric" -> beta
      [] k = "permanova_permutations" -> permanova
      [] k = "differential_method" -> results
      [] k = "significance_threshold" -> sig_taxa

\* C7: in each of the three entry points, a consumed configuration key that
\* is absent from the loaded configuration ends the run in a fatal error
\* with nothing returned; no default stands in for the missing key.
C7_MissingKeyFatal ==
    (stage \in Stages /\ Loaded) =>
        \A k \in ConsumedKeys(stage) \ DOMAIN Cfg :
            /\ pc # "done"
            /\ returned = Unbound
            /\ BoundFrom(k) = Unbound
            /\ pc = "error" => err = "KeyError"
            /\ pc = "error" \/ ENABLED Next

C7_Witness ==
    /\ stage = "diversity"
    /\ Loaded
    /\ "alpha_metrics" \notin DOMAIN Cfg
    /\ rarefied # Unbound
    /\ pc = "error"
    /\ err = "KeyError"
    /\ returned = Unbound

\* C8: the matrix calculate_beta_diversity returns has one row per sample of
\* the input table, is square, has a zero diagonal and is symmetric.
C8_DistanceMatrixOverSamples ==
    (beta # Unbound /\ Len(ValueOf(rarefied)) > 0) =>
        LET m == ValueOf(beta)
        IN  /\ Len(m) = NumSamples(ValueOf(rarefied))
            /\ \A i \in DOMAIN m : Len(m[i]) = Len(m) /\ m[i][i] = 0
            /\ \A i, j \in DOMAIN m : m[i][j] = m[j][i]

\* C9: in the table rarefy_samples returns, the total count of every sample
\* whose input total is at least the depth equals the depth.
C9_RarefiedToDepth ==
    rarefied # Unbound =>
        LET inp == ValueOf(asv_table)
            out == ValueOf(rarefied)
        IN  \A j \in 1..NumSamples(inp) :
                SampleTotal(inp, j) >= Cfg["rarefaction_depth"] =>
                    SampleTotal(out, j) = Cfg["rarefaction_depth"]

====
